---- MODULE Spec2Model ----
(***************************************************************************)
(* Batch download orchestrator of autoinvoice (src-tauri).                 *)
(*                                                                         *)
(* One batch is followed from start_download to its return: the registry   *)
(* insertion, the download_batch loop, the blocking invoice task with its  *)
(* retry loop (one step per call into the browser session or the captcha   *)
(* solver), the registry removal, and concurrent cancel_download calls.    *)
(*                                                                         *)
(* The event log keeps the progress, invoice status and captcha-required   *)
(* events and the two batch-level log lines (cancellation, summary); the   *)
(* per-attempt diagnostic log lines carry no state and are left out.       *)
(***************************************************************************)
EXTENDS Integers, Sequences, FiniteSets, TLC

\* ---------------------------------------------------------------- bounds
MaxInvoices == 3
MaxCancels == 2
MaxCodes == 2
MaxCodeLen == 2
MaxStarts == 3
MaxSinkInvoices == 2
MaxAnswerLen == 3
MaxLiveInvoices == 2
MaxManual == 1
MaxTotal == 100

\* ------------------------------------------------------ program constants
MAX_RETRIES == 3

\* Significand width of an f32, hidden bit included.
F32Bits == 24

VARIABLES
    total,          \* invoices.len() of the start request
    api_key_set,    \* config.openai_api_key is non-empty
    orchestrators,  \* DownloadState.orchestrators: TRUE when the batch id is mapped
    bpc,            \* position of start_download / download_batch
    idx,            \* loop index of download_batch (0-based)
    success_count,
    failed_count,
    results,        \* Vec<InvoiceResult>
    cancelled,      \* DownloadOrchestrator.cancelled (AtomicBool)
    events,         \* what was handed to app.emit, in order
    tpc,            \* position of the blocking invoice task
    attempt,        \* attempt ordinal of the retry loop
    browser,        \* a VnptBrowser of the task is alive
    task_result,    \* value the blocking task returned
    last,           \* outcome of the task's latest external call
    attempt_log,    \* how each finished attempt of the running task ended
    page_error,     \* what check_for_error returned in the current attempt
    flag_at_call,   \* the flag was set when the attempt's latest call began
    ret,            \* value start_download returned
    cancel_calls,   \* number of cancel_download calls made so far
    cancel_ret,     \* value the latest cancel_download call returned
    pdf_dir,        \* config.download_directory, as a sequence of characters
    pdf_codes,      \* invoice codes whose PDF is to be saved, in request order
    pdf_pos,        \* number of codes download_pdf_sync was called for
    pdf_saved,      \* per code, the path download_pdf_sync returned (or None)
    fs,             \* the file system: path -> position of the code written last
    dir_created,    \* create_dir_all(download_directory) has succeeded
    reg_orchestrators,  \* DownloadState.orchestrators: batch_id -> Option<call>
    reg_calls,      \* the start_download calls made: batch_id, position, flag
    reg_cancels,    \* number of cancel_download calls made on the registry
    reg_cancel_last, \* batch_id and return value of the latest of them
    reg_lock,       \* the registry mutex: Option of the guard's holder
    emit_result,    \* what the latest app.emit of an event returned
    solver_api_key, \* CaptchaSolver.api_key, as a sequence of characters
    solver_pc,      \* position of CaptchaSolver::solve
    solver_requests, \* number of requests posted to the external service
    solver_reply,   \* how the external service answered the request
    solver_content, \* choices[0].message.content of the answer
    solver_ret,     \* value CaptchaSolver::solve returned
    manual_calls,   \* number of submit_manual_captcha calls made so far
    manual_ret,     \* value the latest submit_manual_captcha call returned
    pct_current,    \* argument current of an emit_progress call
    pct_total,      \* argument total of it
    pct_events      \* the progress events that call handed to app.emit

vars == <<total, api_key_set, orchestrators, bpc, idx, success_count,
          failed_count, results, cancelled, events, tpc, attempt, browser,
          task_result, last, attempt_log, page_error, flag_at_call, ret,
          cancel_calls, cancel_ret, pdf_dir, pdf_codes, pdf_pos, pdf_saved, fs,
          dir_created, reg_orchestrators, reg_calls, reg_cancels,
          reg_cancel_last, reg_lock, emit_result, solver_api_key, solver_pc,
          solver_requests, solver_reply, solver_content, solver_ret,
          manual_calls, manual_ret, pct_current, pct_total, pct_events>>

\* The state of the progress specification (SpecProgress).
pct_vars == <<pct_current, pct_total, pct_events>>

\* The state of the manual captcha command (SpecManual).
manual_vars == <<manual_calls, manual_ret>>

\* The state of the captcha solver specification (SpecSolve).
solver_vars == <<solver_api_key, solver_pc, solver_requests, solver_reply,
                 solver_content, solver_ret>>

\* The state of the event sink.
sink_vars == <<emit_result>>

\* The state of the registry specification (SpecReg).
reg_vars == <<reg_orchestrators, reg_calls, reg_cancels, reg_cancel_last,
              reg_lock>>

\* The state of the PDF-saving specification (SpecPdf).
pdf_vars == <<pdf_dir, pdf_codes, pdf_pos, pdf_saved, fs, dir_created>>

\* The part of it that belongs to the calls of download_pdf_sync on their own.
pdf_call_vars == <<pdf_dir, pdf_codes, pdf_pos, pdf_saved>>

\* The state of the batch specification (Spec).
main_vars == <<total, api_key_set, orchestrators, bpc, idx, success_count,
               failed_count, results, cancelled, events, tpc, attempt,
               browser, task_result, last, attempt_log, page_error,
               flag_at_call, ret, cancel_calls, cancel_ret>>

batch_vars == <<total, api_key_set, orchestrators, bpc, idx, success_count,
                failed_count, results, events, ret>>

task_vars == <<tpc, attempt, browser, task_result, last, attempt_log,
               page_error, flag_at_call>>

\* ------------------------------------------------------------ error texts
\* AppError values by the variant and message the orchestrator can produce.
ErrBrowserLaunch == "Browser error: Failed to launch browser"
ErrBrowser == "Browser error"
ErrCancelled == "Download failed: Download cancelled"
ErrCaptchaFailed == "Captcha solving failed after 3 attempts"
ErrPanicked == "Browser error: Task panicked"
ErrNoActive == "Invalid configuration: No active download with batch_id"
ErrApiKeyNotSet == "Invalid configuration: OpenAI API key is not set"
ErrNetwork == "Network error"
ErrCaptchaFailedOnce == "Captcha solving failed after 1 attempts"

NoneValue == "None"

\* Option<String> of a file path: a path is a sequence of characters.
None == <<>>

Some(x) == <<x>>

Ok(file_path) == [ok |-> TRUE, error |-> NoneValue, file_path |-> Some(file_path)]

Err(e) == [ok |-> FALSE, error |-> e, file_path |-> None]

NoResult == [ok |-> FALSE, error |-> NoneValue, file_path |-> None]

\* ------------------------------------------------------------- file paths
\* Strings are sequences of one-character strings.
PdfExtension == <<".", "p", "d", "f">>

\* The characters download_pdf_sync replaces in an invoice code.
PathHostile == {"/", "\\", ":", "*", "?", "\"", "<", ">", "|"}

\* Variant: the colon is not replaced.
Sanitize_KeepColon(code) ==
    [k \in 1..Len(code) |->
        IF code[k] \in PathHostile \ {":"} THEN "_" ELSE code[k]]

\* invoice_code.replace([..], "_")
Sanitize(code) ==
    [k \in 1..Len(code) |-> IF code[k] \in PathHostile THEN "_" ELSE code[k]]

\* format!("{}.pdf", safe_code)
PdfFileName(code) == Sanitize(code) \o PdfExtension

\* PathBuf::join: an absolute name replaces the path, otherwise the name is
\* appended after a separator (none after an empty path or a trailing one).
PathJoin(dir, name) ==
    IF name # <<>> /\ name[1] = "/" THEN name
    ELSE IF dir = <<>> THEN name
    ELSE IF dir[Len(dir)] = "/" THEN dir \o name
    ELSE dir \o <<"/">> \o name

\* The path download_pdf_sync writes and returns for a code.
PdfPath(dir, code) == PathJoin(dir, PdfFileName(code))

\* The request of the batch specification: directory /tmp/out and the codes
\* A/B:C, D, EEE, EEEE, ... in request order.
DownloadDirectory == <<"/", "t", "m", "p", "/", "o", "u", "t">>

RequestCode(i) ==
    IF i = 1 THEN <<"A", "/", "B", ":", "C">>
    ELSE IF i = 2 THEN <<"D">>
    ELSE [k \in 1..i |-> "E"]

\* The saved path of invoice i: download_directory joined with its file name.
FilePath(i) == PdfPath(DownloadDirectory, RequestCode(i))

\* ----------------------------------------------------------------- events
\* Rounding of num / den to the nearest integer, ties to the even one: the
\* rounding of every f32 operation.
RoundHalfEven(num, den) ==
    LET q == num \div den
        r == num % den
    IN IF 2 * r < den THEN q
       ELSE IF 2 * r > den THEN q + 1
       ELSE IF q % 2 = 0 THEN q ELSE q + 1

RECURSIVE DivScale(_, _, _)
\* The k from which on current * 2^k / tot has F32Bits binary digits.
DivScale(current, tot, k) ==
    IF current * 2^k >= tot * 2^(F32Bits - 1) THEN k
    ELSE DivScale(current, tot, k + 1)

RECURSIVE MulScale(_, _)
\* The number of low binary digits a product loses to fit into F32Bits.
MulScale(product, s) ==
    IF product \div 2^s < 2^F32Bits THEN s ELSE MulScale(product, s + 1)

\* (current as f32 / total as f32 * 100.0) as u32, for 0 <= current <= tot:
\* both casts are exact, the quotient is rounded to an f32 m * 2^-k, its
\* product with 100.0 is rounded to an f32 r * 2^(s - k), and the cast to
\* u32 drops the fraction.
Percentage(current, tot) ==
    IF tot > 0 /\ current > 0
    THEN LET k == DivScale(current, tot, F32Bits - 1)
             m == RoundHalfEven(current * 2^k, tot)
             s == MulScale(100 * m, 0)
             r == RoundHalfEven(100 * m, 2^s)
         IN IF s >= k THEN r * 2^(s - k) ELSE r \div 2^(k - s)
    ELSE 0

ProgressEvent(current, tot) ==
    [type |-> "progress", invoice |-> 0, status |-> NoneValue,
     error |-> NoneValue, file_path |-> None,
     current |-> current, total |-> tot,
     percentage |-> Percentage(current, tot)]

InvoiceStatusEvent(invoice, status, error, file_path) ==
    [type |-> "status", invoice |-> invoice, status |-> status,
     error |-> error, file_path |-> file_path,
     current |-> 0, total |-> 0, percentage |-> 0]

CaptchaRequiredEvent(invoice) ==
    [type |-> "captcha", invoice |-> invoice, status |-> NoneValue,
     error |-> NoneValue, file_path |-> None,
     current |-> 0, total |-> 0, percentage |-> 0]

LogEvent(level, message) ==
    [type |-> "log", invoice |-> 0, status |-> level,
     error |-> message, file_path |-> None,
     current |-> 0, total |-> 0, percentage |-> 0]

CancelLog == LogEvent("warn", "Download batch cancelled by user")

SummaryLog(s, f, tot) ==
    [type |-> "log", invoice |-> 0, status |-> "info",
     error |-> "Batch complete", file_path |-> None,
     current |-> s, total |-> tot, percentage |-> f]

InvoiceResult(invoice, r) ==
    [invoice_id |-> invoice, code |-> RequestCode(invoice),
     status |-> IF r.ok THEN "success" ELSE "failed",
     error |-> r.error, file_path |-> r.file_path]

\* ------------------------------------------------------------------- Init
InitMain ==
    /\ total \in 0..MaxInvoices
    /\ api_key_set \in BOOLEAN
    /\ orchestrators = FALSE
    /\ bpc = "new"
    /\ idx = 0
    /\ success_count = 0
    /\ failed_count = 0
    /\ results = <<>>
    /\ cancelled = FALSE
    /\ events = <<>>
    /\ tpc = "idle"
    /\ attempt = 0
    /\ browser = FALSE
    /\ task_result = NoResult
    /\ last = <<NoneValue, NoneValue>>
    /\ attempt_log = <<>>
    /\ page_error = NoneValue
    /\ flag_at_call = FALSE
    /\ ret = [kind |-> "none"]
    /\ cancel_calls = 0
    /\ cancel_ret = NoneValue

\* No PDF is being saved outside the batch.
PdfIdle ==
    /\ pdf_dir = DownloadDirectory
    /\ pdf_codes = <<>>
    /\ pdf_pos = 0
    /\ pdf_saved = <<>>
    /\ fs = {}
    /\ dir_created = FALSE

\* The batch identifiers requests may carry.
BatchIds == {"X", "Y"}

\* DownloadState::default: an empty registry, no call made.
RegIdle ==
    /\ reg_orchestrators = [id \in BatchIds |-> None]
    /\ reg_calls = <<>>
    /\ reg_cancels = 0
    /\ reg_cancel_last = [batch_id |-> NoneValue, ret |-> NoneValue]
    /\ reg_lock = None

\* What app.emit may return.
EmitOutcomes == {"emit_ok", "emit_err"}

\* No event was emitted yet.
SinkIdle == emit_result = NoneValue

\* CaptchaSolver::solve is not being called on its own.
SolverIdle ==
    /\ solver_api_key = <<>>
    /\ solver_pc = "idle"
    /\ solver_requests = 0
    /\ solver_reply = NoneValue
    /\ solver_content = <<>>
    /\ solver_ret = [ok |-> FALSE, error |-> NoneValue, text |-> <<>>]

\* submit_manual_captcha was not called.
ManualIdle ==
    /\ manual_calls = 0
    /\ manual_ret = NoneValue

\* emit_progress is not being called on its own.
ProgressIdle ==
    /\ pct_current = 0
    /\ pct_total = 0
    /\ pct_events = <<>>

Init ==
    /\ InitMain
    /\ PdfIdle
    /\ RegIdle
    /\ SinkIdle
    /\ SolverIdle /\ ManualIdle /\ ProgressIdle


\* --------------------------------------------------------- orchestrator
\* Mutant of is_cancelled: the batch loop never sees the flag.
is_cancelled_never == FALSE

\* DownloadOrchestrator::is_cancelled: the flag as read by the batch loop.
is_cancelled == cancelled

\* Mutant of cancel: the flag is toggled instead of set.
cancel_toggle(flag) == ~flag

\* DownloadOrchestrator::cancel: the value stored into the flag.
cancel(flag) == TRUE

\* The loop of download_batch has another invoice to visit.
HasNext == idx < total

\* Variant: the delay does not depend on the flag.
DelayWanted_IgnoreFlag == idx < total - 1

\* The condition of the inter-invoice delay, read after invoice idx is recorded.
DelayWanted == ~is_cancelled /\ idx < total - 1

\* Mutant of AfterInvoice: the task's error is propagated out of the loop.
AfterInvoice_AbortOnErr(r, delay) ==
    IF ~r.ok THEN "final" ELSE IF delay THEN "sleep" ELSE "loop_top"

\* Where the loop goes once the match on the task's result is done: both arms
\* fall through to the delay and the next iteration.
AfterInvoice(r, delay) == IF delay THEN "sleep" ELSE "loop_top"

\* Mutant of CountFailed: an invoice aborted by cancellation is not counted.
CountFailed_SkipCancelled(r, n) ==
    IF r.ok \/ r.error = ErrCancelled THEN n ELSE n + 1

\* Variant: a success is not counted once the flag is set.
CountSuccess_UnlessCancelled(r, n) == IF r.ok /\ ~cancelled THEN n + 1 ELSE n

\* The counters after the match on the task's result.
CountSuccess(r, n) == IF r.ok THEN n + 1 ELSE n

CountFailed(r, n) == IF r.ok THEN n ELSE n + 1

\* Mutant of PushResult: a failed invoice is pushed in its arm and again
\* after the match.
PushResult_Twice(rs, invoice, r) ==
    IF r.ok
    THEN Append(rs, InvoiceResult(invoice, r))
    ELSE Append(Append(rs, InvoiceResult(invoice, r)), InvoiceResult(invoice, r))

\* Variant: only the success arm pushes its result.
PushResult_OnlySuccess(rs, invoice, r) ==
    IF r.ok THEN Append(rs, InvoiceResult(invoice, r)) ELSE rs

\* results.push(InvoiceResult {..}) of the arm taken.
PushResult(rs, invoice, r) == Append(rs, InvoiceResult(invoice, r))

\* Variant: the failed arm reports no error string.
TerminalStatus_NoError(invoice, r) ==
    InvoiceStatusEvent(invoice, IF r.ok THEN "success" ELSE "failed",
                       NoneValue, r.file_path)

\* The terminal invoice status event of the arm taken.
TerminalStatus(invoice, r) ==
    InvoiceStatusEvent(invoice, IF r.ok THEN "success" ELSE "failed",
                       r.error, r.file_path)

\* Mutant of BatchResultOf: a batch with no success returns an error.
BatchResultOf_ErrWhenNoSuccess(tot, s, f, rs) ==
    IF s = 0 /\ tot > 0
    THEN [kind |-> "Err"]
    ELSE [kind |-> "Ok", total |-> tot, success_count |-> s,
          failed_count |-> f, results |-> rs]

\* Ok(BatchResult {..}) at the end of download_batch.
BatchResultOf(tot, s, f, rs) ==
    [kind |-> "Ok", total |-> tot, success_count |-> s,
     failed_count |-> f, results |-> rs]

\* Mutant of StartEvents: the status is emitted before the progress.
StartEvents_StatusFirst(current, tot) ==
    <<InvoiceStatusEvent(current, "downloading", NoneValue, None),
      ProgressEvent(current, tot)>>

\* Mutant of StartEvents: the progress carries the 0-based loop index.
StartEvents_ZeroBased(current, tot) ==
    <<ProgressEvent(current - 1, tot),
      InvoiceStatusEvent(current, "downloading", NoneValue, None)>>

\* The events emitted before an invoice is delegated to its task.
StartEvents(current, tot) ==
    <<ProgressEvent(current, tot),
      InvoiceStatusEvent(current, "downloading", NoneValue, None)>>

\* Mutant of FinalEvents: the final progress repeats the last loop position.
FinalEvents_LastPosition(tot, s, f) ==
    <<ProgressEvent(s + f, tot), SummaryLog(s, f, tot)>>

\* The events emitted after the loop.
FinalEvents(tot, s, f) ==
    <<ProgressEvent(tot, tot), SummaryLog(s, f, tot)>>

\* Variant: a failed emit ends the loop.
OnEmit_Propagate(result, next) == IF result = "emit_ok" THEN next ELSE "final"

\* let _ = app.emit(..): the result is discarded and the caller goes on.
OnEmit(result, next) == next

\* start_download: the orchestrator is stored for potential cancellation.
start_insert ==
    /\ bpc = "new"
    /\ orchestrators' = TRUE
    /\ bpc' = "loop_top"
    /\ UNCHANGED <<total, api_key_set, idx, success_count, failed_count,
                   results, cancelled, events, ret, cancel_calls, cancel_ret>>
    /\ UNCHANGED task_vars

\* download_batch: top of one loop iteration, up to the spawn of the task.
download_batch_top(sink) ==
    /\ bpc = "loop_top"
    /\ IF ~HasNext
       THEN /\ bpc' = "final"
            /\ UNCHANGED <<events, task_vars>>
       ELSE IF is_cancelled
       THEN /\ events' = Append(events, CancelLog)
            /\ bpc' = OnEmit(sink, "final")
            /\ UNCHANGED task_vars
       ELSE /\ events' = events \o StartEvents(idx + 1, total)
            /\ bpc' = OnEmit(sink, "await")
            /\ tpc' = "launch"
            /\ attempt' = 0
            /\ task_result' = NoResult
            /\ last' = <<NoneValue, NoneValue>>
            /\ attempt_log' = <<>>
            /\ page_error' = NoneValue
            /\ flag_at_call' = FALSE
            /\ UNCHANGED browser
    /\ UNCHANGED <<total, api_key_set, orchestrators, idx, success_count,
                   failed_count, results, cancelled, ret, cancel_calls,
                   cancel_ret>>

\* download_batch: the task has returned; match on its result, then the
\* delay condition.
download_batch_record(sink) ==
    /\ bpc = "await"
    /\ tpc = "done"
    /\ success_count' = CountSuccess(task_result, success_count)
    /\ failed_count' = CountFailed(task_result, failed_count)
    /\ events' = Append(events, TerminalStatus(idx + 1, task_result))
    /\ results' = PushResult(results, idx + 1, task_result)
    /\ bpc' = OnEmit(sink, AfterInvoice(task_result, DelayWanted))
    /\ idx' = IF bpc' = "final" THEN idx ELSE idx + 1
    /\ tpc' = "idle"
    /\ attempt_log' = <<>>
    /\ page_error' = NoneValue
    /\ flag_at_call' = FALSE
    /\ UNCHANGED <<total, api_key_set, orchestrators, cancelled, attempt,
                   browser, task_result, last, ret, cancel_calls, cancel_ret>>

\* download_batch: the inter-invoice sleep is over.
download_batch_sleep ==
    /\ bpc = "sleep"
    /\ bpc' = "loop_top"
    /\ UNCHANGED <<total, api_key_set, orchestrators, idx, success_count,
                   failed_count, results, cancelled, events, ret,
                   cancel_calls, cancel_ret>>
    /\ UNCHANGED task_vars

\* download_batch: after the loop.
download_batch_final(sink) ==
    /\ bpc = "final"
    /\ events' = events \o FinalEvents(total, success_count, failed_count)
    /\ ret' = BatchResultOf(total, success_count, failed_count, results)
    /\ bpc' = OnEmit(sink, "remove")
    /\ UNCHANGED <<total, api_key_set, orchestrators, idx, success_count,
                   failed_count, results, cancelled, cancel_calls, cancel_ret>>
    /\ UNCHANGED task_vars

\* start_download: the orchestrator is removed and the result returned.
start_remove ==
    /\ bpc = "remove"
    /\ orchestrators' = FALSE
    /\ bpc' = "returned"
    /\ UNCHANGED <<total, api_key_set, idx, success_count, failed_count,
                   results, cancelled, events, ret, cancel_calls, cancel_ret>>
    /\ UNCHANGED task_vars

\* cancel_download, from any caller at any time.
cancel_download ==
    /\ cancel_calls < MaxCancels
    /\ cancel_calls' = cancel_calls + 1
    /\ IF orchestrators
       THEN /\ cancelled' = cancel(cancelled)
            /\ cancel_ret' = "Ok"
       ELSE /\ cancel_ret' = ErrNoActive
            /\ UNCHANGED cancelled
    /\ UNCHANGED batch_vars
    /\ UNCHANGED task_vars


\* ---------------------------------------------------------- invoice task
\* What the captcha solver may answer (solve_blocking is the blocking form of
\* CaptchaSolver::solve): with no API key it fails with the
\* configuration error before any request; otherwise the service decides.
SolveOutcomes == IF api_key_set THEN {"solve_ok", "solve_err"} ELSE {"solve_err"}

\* Mutant of IsCaptchaError: the retry on a captcha error is missing.
IsCaptchaError_Never(banner) == FALSE

\* Variant: every banner is taken for a rejected captcha.
IsCaptchaError_AnyBanner(banner) == banner # "banner_none"

\* The page error names a rejected captcha ("captcha", "sai", "không đúng").
IsCaptchaError(banner) == banner = "banner_captcha"

\* Variant: an empty payload is saved like any other.
DownloadSucceeded_EmptyToo(outcome) ==
    outcome \in {"download_ok", "download_empty"}

\* download_pdf_sync returned Ok: bytes were fetched and are not empty.
DownloadSucceeded(outcome) == outcome = "download_ok"

\* std::fs::create_dir_all is reached, and succeeds, when the payload is not
\* empty and the directory can be created.
DirCreated(outcome, before) ==
    before \/ outcome \in {"download_ok", "write_err"}

\* std::fs::write: the file at the path is created or replaced.
WriteFile(files, file_path, writer) ==
    {f \in files : f.path # file_path}
        \cup {[path |-> file_path, writer |-> writer]}

\* Mutant of CaptchaRequiredNow: the event is emitted on every solver failure.
CaptchaRequiredNow_Always(k) == TRUE

\* Variant: the event is never emitted.
CaptchaRequiredNow_Never(k) == FALSE

\* The captcha-required event is emitted for this attempt's solver failure.
CaptchaRequiredNow(k) == k = MAX_RETRIES

\* Variant: the browser is not dropped when the task returns.
TaskReturn_KeepBrowser(r) ==
    /\ tpc' = "done"
    /\ task_result' = r
    /\ browser' = browser

\* download_invoice_sync: the task returns r; its browser is dropped.
TaskReturn(r) ==
    /\ tpc' = "done"
    /\ task_result' = r
    /\ browser' = FALSE

\* Variant: the loop allows one attempt more.
NextAttempt_OneMore ==
    /\ attempt_log' = Append(attempt_log, last'[2])
    /\ IF attempt <= MAX_RETRIES
       THEN /\ attempt' = attempt + 1
            /\ tpc' = "attempt_top"
            /\ UNCHANGED <<browser, task_result>>
       ELSE /\ TaskReturn(Err(ErrCaptchaFailed))
            /\ UNCHANGED attempt

\* Variant: a retry skips an attempt number.
NextAttempt_SkipAttempt ==
    /\ attempt_log' = Append(attempt_log, last'[2])
    /\ IF attempt < MAX_RETRIES
       THEN /\ attempt' = attempt + 2
            /\ tpc' = "attempt_top"
            /\ UNCHANGED <<browser, task_result>>
       ELSE /\ TaskReturn(Err(ErrCaptchaFailed))
            /\ UNCHANGED attempt

\* Variant: a retry starts the same attempt again.
NextAttempt_SameAttempt ==
    /\ attempt_log' = attempt_log
    /\ attempt' = attempt
    /\ tpc' = "attempt_top"
    /\ UNCHANGED <<browser, task_result>>

\* The retry loop moves on: the next attempt, or the error after the loop.
NextAttempt ==
    /\ attempt_log' = Append(attempt_log, last'[2])
    /\ IF attempt < MAX_RETRIES
       THEN /\ attempt' = attempt + 1
            /\ tpc' = "attempt_top"
            /\ UNCHANGED <<browser, task_result>>
       ELSE /\ TaskReturn(Err(ErrCaptchaFailed))
            /\ UNCHANGED attempt

\* A call into the browser session followed by `?`: on failure the error is
\* returned from the retry function at once.
BrowserCall(at, name, next) ==
    /\ tpc = at
    /\ \E ok \in BOOLEAN :
          IF ok
          THEN /\ last' = <<name, "ok">>
               /\ tpc' = next
               /\ UNCHANGED <<browser, task_result>>
          ELSE /\ last' = <<name, "err">>
               /\ TaskReturn(Err(ErrBrowser))
    /\ flag_at_call' = cancelled
    /\ UNCHANGED <<attempt, attempt_log, page_error>>
    /\ UNCHANGED <<batch_vars, cancelled, cancel_calls, cancel_ret>>

\* download_invoice_sync: VnptBrowser::new(config.headless)?
task_launch ==
    /\ tpc = "launch"
    /\ \E ok \in BOOLEAN :
          IF ok
          THEN /\ last' = <<"launch", "ok">>
               /\ browser' = TRUE
               /\ attempt' = 1
               /\ tpc' = "attempt_top"
               /\ UNCHANGED task_result
          ELSE /\ last' = <<"launch", "err">>
               /\ tpc' = "done"
               /\ task_result' = Err(ErrBrowserLaunch)
               /\ UNCHANGED <<browser, attempt>>
    /\ UNCHANGED <<attempt_log, page_error, flag_at_call>>
    /\ UNCHANGED <<batch_vars, cancelled, cancel_calls, cancel_ret>>

\* Variant: the flag is read at the top of the first attempt only.
CancelSeen_FirstOnly(k, flag) == k = 1 /\ flag

\* cancelled.load(..) at the top of attempt k.
CancelSeen(k, flag) == flag

\* Top of one attempt: the cancellation check.
task_attempt_top ==
    /\ tpc = "attempt_top"
    /\ IF CancelSeen(attempt, cancelled)
       THEN /\ last' = <<"check", "cancelled">>
            /\ TaskReturn(Err(ErrCancelled))
       ELSE /\ last' = <<"check", "ok">>
            /\ tpc' = "navigate"
            /\ UNCHANGED <<browser, task_result>>
    /\ page_error' = NoneValue
    /\ flag_at_call' = FALSE
    /\ UNCHANGED <<attempt, attempt_log>>
    /\ UNCHANGED <<batch_vars, cancelled, cancel_calls, cancel_ret>>

task_navigate == BrowserCall("navigate", "navigate", "fill_code")

task_fill_code == BrowserCall("fill_code", "fill_code", "screenshot")

task_screenshot == BrowserCall("screenshot", "screenshot", "solve")

\* captcha_solver.solve_blocking(&captcha_image) and its Err arm; the result
\* of the emit in it is discarded.
task_solve(sink) ==
    /\ tpc = "solve"
    /\ \E o \in SolveOutcomes :
          /\ last' = <<"solve", o>>
          /\ IF o = "solve_ok"
             THEN /\ tpc' = "fill_captcha"
                  /\ UNCHANGED <<attempt, browser, task_result, events,
                                 attempt_log>>
             ELSE /\ events' = IF CaptchaRequiredNow(attempt)
                               THEN Append(events, CaptchaRequiredEvent(idx + 1))
                               ELSE events
                  /\ NextAttempt
    /\ flag_at_call' = cancelled
    /\ UNCHANGED <<total, api_key_set, orchestrators, bpc, idx, success_count,
                   failed_count, results, ret, cancelled, cancel_calls,
                   cancel_ret, page_error>>

task_fill_captcha == BrowserCall("fill_captcha", "fill_captcha", "submit")

task_submit == BrowserCall("submit", "submit", "check_error")

\* browser.check_for_error() and the retry on a captcha error.
task_check_error ==
    /\ tpc = "check_error"
    /\ \E banner \in {"banner_none", "banner_captcha", "banner_other"} :
          /\ last' = <<"check_error", banner>>
          /\ page_error' = banner
          /\ flag_at_call' = cancelled
          /\ IF IsCaptchaError(banner)
             THEN NextAttempt
             ELSE /\ tpc' = "download"
                  /\ UNCHANGED <<attempt, browser, task_result, attempt_log>>
    /\ UNCHANGED <<batch_vars, cancelled, cancel_calls, cancel_ret>>

\* download_pdf_sync and the match on its result. Its error outcome here is
\* the browser's download failing; the failures of create_dir_all and of the
\* write are drawn in SpecPdf.
task_download ==
    /\ tpc = "download"
    /\ \E o \in {"download_ok", "download_empty", "download_err"} :
          /\ last' = <<"download", o>>
          /\ IF DownloadSucceeded(o)
             THEN /\ TaskReturn(Ok(FilePath(idx + 1)))
                  /\ fs' = WriteFile(fs, FilePath(idx + 1), idx + 1)
                  /\ UNCHANGED <<attempt, attempt_log>>
             ELSE /\ NextAttempt
                  /\ fs' = fs
          /\ dir_created' = DirCreated(o, dir_created)
    /\ flag_at_call' = cancelled
    /\ UNCHANGED page_error
    /\ UNCHANGED <<batch_vars, cancelled, cancel_calls, cancel_ret>>

\* The blocking task panics: the join error becomes a browser error.
task_panic ==
    /\ tpc \in {"launch", "navigate", "fill_code", "screenshot", "solve",
                "fill_captcha", "submit", "check_error", "download"}
    /\ last' = <<"panic", "err">>
    /\ TaskReturn(Err(ErrPanicked))
    /\ UNCHANGED <<attempt, attempt_log, page_error, flag_at_call>>
    /\ UNCHANGED <<batch_vars, cancelled, cancel_calls, cancel_ret>>

\* The sink records the result of the emits of a step.
Sink(result) ==
    emit_result' = IF events' # events THEN result ELSE emit_result

\* One step of the batch itself, every event being accepted by the sink.
NextMain ==
    \/ start_insert
    \/ download_batch_top("emit_ok")
    \/ download_batch_record("emit_ok")
    \/ download_batch_sleep
    \/ download_batch_final("emit_ok")
    \/ start_remove
    \/ cancel_download
    \/ task_launch
    \/ task_attempt_top
    \/ task_navigate
    \/ task_fill_code
    \/ task_screenshot
    \/ task_solve("emit_ok")
    \/ task_fill_captcha
    \/ task_submit
    \/ task_check_error
    \/ task_download
    \/ task_panic

\* One step of the batch specification: the sink accepts every event, and
\* the PDF calls and the registry of the other specifications stay idle.
Next ==
    \/ start_insert /\ Sink("emit_ok")
         /\ UNCHANGED <<pdf_vars, reg_vars, solver_vars, manual_vars, pct_vars>>
    \/ download_batch_top("emit_ok") /\ Sink("emit_ok")
         /\ UNCHANGED <<pdf_vars, reg_vars, solver_vars, manual_vars, pct_vars>>
    \/ download_batch_record("emit_ok") /\ Sink("emit_ok")
         /\ UNCHANGED <<pdf_vars, reg_vars, solver_vars, manual_vars, pct_vars>>
    \/ download_batch_sleep /\ Sink("emit_ok")
         /\ UNCHANGED <<pdf_vars, reg_vars, solver_vars, manual_vars, pct_vars>>
    \/ download_batch_final("emit_ok") /\ Sink("emit_ok")
         /\ UNCHANGED <<pdf_vars, reg_vars, solver_vars, manual_vars, pct_vars>>
    \/ start_remove /\ Sink("emit_ok")
         /\ UNCHANGED <<pdf_vars, reg_vars, solver_vars, manual_vars, pct_vars>>
    \/ cancel_download /\ Sink("emit_ok")
         /\ UNCHANGED <<pdf_vars, reg_vars, solver_vars, manual_vars, pct_vars>>
    \/ task_launch /\ Sink("emit_ok")
         /\ UNCHANGED <<pdf_vars, reg_vars, solver_vars, manual_vars, pct_vars>>
    \/ task_attempt_top /\ Sink("emit_ok")
         /\ UNCHANGED <<pdf_vars, reg_vars, solver_vars, manual_vars, pct_vars>>
    \/ task_navigate /\ Sink("emit_ok")
         /\ UNCHANGED <<pdf_vars, reg_vars, solver_vars, manual_vars, pct_vars>>
    \/ task_fill_code /\ Sink("emit_ok")
         /\ UNCHANGED <<pdf_vars, reg_vars, solver_vars, manual_vars, pct_vars>>
    \/ task_screenshot /\ Sink("emit_ok")
         /\ UNCHANGED <<pdf_vars, reg_vars, solver_vars, manual_vars, pct_vars>>
    \/ task_solve("emit_ok") /\ Sink("emit_ok")
         /\ UNCHANGED <<pdf_vars, reg_vars, solver_vars, manual_vars, pct_vars>>
    \/ task_fill_captcha /\ Sink("emit_ok")
         /\ UNCHANGED <<pdf_vars, reg_vars, solver_vars, manual_vars, pct_vars>>
    \/ task_submit /\ Sink("emit_ok")
         /\ UNCHANGED <<pdf_vars, reg_vars, solver_vars, manual_vars, pct_vars>>
    \/ task_check_error /\ Sink("emit_ok")
         /\ UNCHANGED <<pdf_vars, reg_vars, solver_vars, manual_vars, pct_vars>>
    \/ task_download /\ Sink("emit_ok")
         /\ UNCHANGED <<pdf_call_vars, reg_vars, solver_vars, manual_vars, pct_vars>>
    \/ task_panic /\ Sink("emit_ok")
         /\ UNCHANGED <<pdf_vars, reg_vars, solver_vars, manual_vars, pct_vars>>

Spec == Init /\ [][Next]_vars

\* ------------------------------------- a batch that keeps running (SpecLive)
\* The batch under the scheduling of the runtime: start_download, the loop
\* and the blocking task take their next step whenever they have one, every
\* call into the browser or the solver returning; cancel_download is called
\* or not as the user pleases.
InitLive == Init /\ total <= MaxLiveInvoices

RunStep == Next /\ cancel_calls' = cancel_calls

SpecLive == InitLive /\ [][Next]_vars /\ WF_vars(RunStep)

\* ------------------------------- the manual captcha command (SpecManual)
\* submit_manual_captcha called while a batch runs. Its arguments (the
\* registry, batch_id, invoice_id, captcha_text) are not used by its body,
\* which returns Ok(()).
InitManual == Init /\ total <= MaxLiveInvoices

submit_manual_captcha ==
    /\ manual_calls < MaxManual
    /\ manual_calls' = manual_calls + 1
    /\ manual_ret' = "Ok"
    /\ UNCHANGED <<main_vars, pdf_vars, reg_vars, sink_vars, solver_vars,
                   pct_vars>>

NextManual ==
    \/ Next
    \/ submit_manual_captcha

SpecManual == InitManual /\ [][NextManual]_vars

\* ------------------------------------------- a sink that may fail (SpecSink)
\* The same batch with an event sink that accepts or rejects the events of
\* each step.
InitSink == Init /\ total <= MaxSinkInvoices

NextSink ==
    \/ start_insert /\ Sink("emit_ok")
         /\ UNCHANGED <<pdf_vars, reg_vars, solver_vars, manual_vars, pct_vars>>
    \/ \E sink \in EmitOutcomes :
         download_batch_top(sink) /\ Sink(sink)
         /\ UNCHANGED <<pdf_vars, reg_vars, solver_vars, manual_vars, pct_vars>>
    \/ \E sink \in EmitOutcomes :
         download_batch_record(sink) /\ Sink(sink)
         /\ UNCHANGED <<pdf_vars, reg_vars, solver_vars, manual_vars, pct_vars>>
    \/ download_batch_sleep /\ Sink("emit_ok")
         /\ UNCHANGED <<pdf_vars, reg_vars, solver_vars, manual_vars, pct_vars>>
    \/ \E sink \in EmitOutcomes :
         download_batch_final(sink) /\ Sink(sink)
         /\ UNCHANGED <<pdf_vars, reg_vars, solver_vars, manual_vars, pct_vars>>
    \/ start_remove /\ Sink("emit_ok")
         /\ UNCHANGED <<pdf_vars, reg_vars, solver_vars, manual_vars, pct_vars>>
    \/ cancel_download /\ Sink("emit_ok")
         /\ UNCHANGED <<pdf_vars, reg_vars, solver_vars, manual_vars, pct_vars>>
    \/ task_launch /\ Sink("emit_ok")
         /\ UNCHANGED <<pdf_vars, reg_vars, solver_vars, manual_vars, pct_vars>>
    \/ task_attempt_top /\ Sink("emit_ok")
         /\ UNCHANGED <<pdf_vars, reg_vars, solver_vars, manual_vars, pct_vars>>
    \/ task_navigate /\ Sink("emit_ok")
         /\ UNCHANGED <<pdf_vars, reg_vars, solver_vars, manual_vars, pct_vars>>
    \/ task_fill_code /\ Sink("emit_ok")
         /\ UNCHANGED <<pdf_vars, reg_vars, solver_vars, manual_vars, pct_vars>>
    \/ task_screenshot /\ Sink("emit_ok")
         /\ UNCHANGED <<pdf_vars, reg_vars, solver_vars, manual_vars, pct_vars>>
    \/ \E sink \in EmitOutcomes :
         task_solve(sink) /\ Sink(sink)
         /\ UNCHANGED <<pdf_vars, reg_vars, solver_vars, manual_vars, pct_vars>>
    \/ task_fill_captcha /\ Sink("emit_ok")
         /\ UNCHANGED <<pdf_vars, reg_vars, solver_vars, manual_vars, pct_vars>>
    \/ task_submit /\ Sink("emit_ok")
         /\ UNCHANGED <<pdf_vars, reg_vars, solver_vars, manual_vars, pct_vars>>
    \/ task_check_error /\ Sink("emit_ok")
         /\ UNCHANGED <<pdf_vars, reg_vars, solver_vars, manual_vars, pct_vars>>
    \/ task_download /\ Sink("emit_ok")
         /\ UNCHANGED <<pdf_call_vars, reg_vars, solver_vars, manual_vars, pct_vars>>
    \/ task_panic /\ Sink("emit_ok")
         /\ UNCHANGED <<pdf_vars, reg_vars, solver_vars, manual_vars, pct_vars>>

SpecSink == InitSink /\ [][NextSink]_vars

\* ---------------------------------------------------- saving PDFs (SpecPdf)
\* download_pdf_sync on its own: a directory and a list of invoice codes are
\* drawn, and the function is called for each code in order.
SeqsOver(S, n) == UNION {[1..m -> S] : m \in 1..n}

CodeChars == PathHostile \cup {"A", "_", "."}

SmallChars == {"A", "/", ":"}

ExampleCodes == {<<"A", "/", "B", ":", "C">>, <<"D">>}

PdfCodes ==
    ExampleCodes \cup SeqsOver(CodeChars, 1) \cup SeqsOver(SmallChars, MaxCodeLen)

PdfDirs == {DownloadDirectory, <<"o", "u", "t", "/">>}

InitPdf ==
    /\ InitMain
    /\ total = 0
    /\ ~api_key_set
    /\ pdf_dir \in PdfDirs
    /\ pdf_codes \in SeqsOver(PdfCodes, MaxCodes)
    /\ pdf_pos = 0
    /\ pdf_saved = <<>>
    /\ fs = {}
    /\ dir_created = FALSE
    /\ RegIdle
    /\ SinkIdle
    /\ SolverIdle
    /\ ManualIdle
    /\ ProgressIdle

\* download_pdf_sync for the next code: the browser's download, the empty
\* check, create_dir_all and the write may each fail; otherwise the file is
\* written and its path returned.
download_pdf_sync ==
    /\ pdf_pos < Len(pdf_codes)
    /\ \E o \in {"download_ok", "download_empty", "download_err",
                 "dir_err", "write_err"} :
          /\ IF DownloadSucceeded(o)
             THEN LET file_path == PdfPath(pdf_dir, pdf_codes[pdf_pos + 1])
                  IN /\ fs' = WriteFile(fs, file_path, pdf_pos + 1)
                     /\ pdf_saved' = Append(pdf_saved, Some(file_path))
             ELSE /\ fs' = fs
                  /\ pdf_saved' = Append(pdf_saved, None)
          /\ dir_created' = DirCreated(o, dir_created)
    /\ pdf_pos' = pdf_pos + 1
    /\ UNCHANGED <<pdf_dir, pdf_codes>>

NextPdf ==
    download_pdf_sync
        /\ UNCHANGED <<main_vars, reg_vars, sink_vars, solver_vars,
                       manual_vars, pct_vars>>

SpecPdf == InitPdf /\ [][NextPdf]_vars

\* ------------------------------------------- the batch registry (SpecReg)
\* start_download and cancel_download called concurrently for several
\* batches; download_batch is one step of a call.
InitReg ==
    /\ InitMain
    /\ total = 0
    /\ ~api_key_set
    /\ PdfIdle
    /\ RegIdle
    /\ SinkIdle
    /\ SolverIdle
    /\ ManualIdle
    /\ ProgressIdle

\* HashMap::insert: the value is stored under the key, replacing any other.
HashInsert(map, key, value) == [map EXCEPT ![key] = Some(value)]

\* Variant: nothing is removed.
HashRemove_Keep(map, key) == map

\* HashMap::remove
HashRemove(map, key) == [map EXCEPT ![key] = None]

\* The guard state.orchestrators.lock().await returns to a caller.
Guard(by, call, batch_id) == [by |-> by, call |-> call, batch_id |-> batch_id]

\* Variant: the guard outlives its block.
DropGuard_Held(guard) == guard

\* The guard goes out of scope: the mutex is free again.
DropGuard(guard) == None

\* start_download: the orchestrator is created and the lock acquired.
reg_start_lock ==
    /\ Len(reg_calls) < MaxStarts
    /\ reg_lock = None
    /\ \E id \in BatchIds :
          /\ reg_calls' = Append(reg_calls,
                [batch_id |-> id, pc |-> "insert", cancelled |-> FALSE])
          /\ reg_lock' = Some(Guard("start", Len(reg_calls) + 1, id))
    /\ UNCHANGED <<reg_orchestrators, reg_cancels, reg_cancel_last>>

\* start_download: the insertion, up to the end of its block.
reg_start_insert ==
    /\ \E k \in DOMAIN reg_calls :
          /\ reg_calls[k].pc = "insert"
          /\ reg_orchestrators' =
                HashInsert(reg_orchestrators, reg_calls[k].batch_id, k)
          /\ reg_calls' = [reg_calls EXCEPT ![k].pc = "running"]
    /\ reg_lock' = DropGuard(reg_lock)
    /\ UNCHANGED <<reg_cancels, reg_cancel_last>>

\* download_batch of a call returns.
reg_download_batch ==
    /\ \E k \in DOMAIN reg_calls :
          /\ reg_calls[k].pc = "running"
          /\ reg_calls' = [reg_calls EXCEPT ![k].pc = "finished"]
    /\ UNCHANGED <<reg_orchestrators, reg_cancels, reg_cancel_last, reg_lock>>

\* start_download: the lock is acquired for the removal.
reg_start_relock ==
    /\ reg_lock = None
    /\ \E k \in DOMAIN reg_calls :
          /\ reg_calls[k].pc = "finished"
          /\ reg_calls' = [reg_calls EXCEPT ![k].pc = "remove"]
          /\ reg_lock' = Some(Guard("start", k, reg_calls[k].batch_id))
    /\ UNCHANGED <<reg_orchestrators, reg_cancels, reg_cancel_last>>

\* start_download removes the entry of its batch_id and returns.
reg_start_remove ==
    /\ \E k \in DOMAIN reg_calls :
          /\ reg_calls[k].pc = "remove"
          /\ reg_calls' = [reg_calls EXCEPT ![k].pc = "returned"]
          /\ reg_orchestrators' =
                HashRemove(reg_orchestrators, reg_calls[k].batch_id)
    /\ reg_lock' = DropGuard(reg_lock)
    /\ UNCHANGED <<reg_cancels, reg_cancel_last>>

\* cancel_download: the lock is acquired.
reg_cancel_lock ==
    /\ reg_cancels < MaxCancels
    /\ reg_lock = None
    /\ \E id \in BatchIds : reg_lock' = Some(Guard("cancel", 0, id))
    /\ UNCHANGED <<reg_orchestrators, reg_calls, reg_cancels, reg_cancel_last>>

\* cancel_download: the orchestrator found under batch_id is cancelled, and
\* the function returns.
reg_cancel_download ==
    /\ reg_lock # None
    /\ reg_lock[1].by = "cancel"
    /\ reg_cancels' = reg_cancels + 1
    /\ LET id == reg_lock[1].batch_id
       IN IF reg_orchestrators[id] # None
          THEN /\ reg_calls' =
                    [reg_calls EXCEPT ![reg_orchestrators[id][1]].cancelled =
                                          cancel(@)]
               /\ reg_cancel_last' = [batch_id |-> id, ret |-> "Ok"]
          ELSE /\ reg_cancel_last' = [batch_id |-> id, ret |-> ErrNoActive]
               /\ UNCHANGED reg_calls
    /\ reg_lock' = DropGuard(reg_lock)
    /\ UNCHANGED reg_orchestrators

NextReg ==
    \/ reg_start_lock
        /\ UNCHANGED <<main_vars, pdf_vars, sink_vars, solver_vars,
                       manual_vars, pct_vars>>
    \/ reg_start_insert
        /\ UNCHANGED <<main_vars, pdf_vars, sink_vars, solver_vars,
                       manual_vars, pct_vars>>
    \/ reg_download_batch
        /\ UNCHANGED <<main_vars, pdf_vars, sink_vars, solver_vars,
                       manual_vars, pct_vars>>
    \/ reg_start_relock
        /\ UNCHANGED <<main_vars, pdf_vars, sink_vars, solver_vars,
                       manual_vars, pct_vars>>
    \/ reg_start_remove
        /\ UNCHANGED <<main_vars, pdf_vars, sink_vars, solver_vars,
                       manual_vars, pct_vars>>
    \/ reg_cancel_lock
        /\ UNCHANGED <<main_vars, pdf_vars, sink_vars, solver_vars,
                       manual_vars, pct_vars>>
    \/ reg_cancel_download
        /\ UNCHANGED <<main_vars, pdf_vars, sink_vars, solver_vars,
                       manual_vars, pct_vars>>

SpecReg == InitReg /\ [][NextReg]_vars


\* ---------------------------------------------- the captcha solver (SpecSolve)
\* CaptchaSolver::solve on its own: a solver is built with a drawn API key and
\* called once; the external service answers the request in a drawn way.
ApiKeys == {<<>>, <<"s", "k">>}

Whitespace == {" "}

Quotes == {"\"", "'"}

AnswerChars == Whitespace \cup Quotes \cup {"A"}

\* What the service may put into choices[0].message.content.
Answers == {<<>>} \cup SeqsOver(AnswerChars, MaxAnswerLen)

SolveOk(text) == [ok |-> TRUE, error |-> NoneValue, text |-> text]

SolveErr(e) == [ok |-> FALSE, error |-> e, text |-> <<>>]

RECURSIVE TrimStartMatches(_, _)
\* str::trim_start_matches with a predicate: leading characters of the set
\* are removed.
TrimStartMatches(str, set) ==
    IF str # <<>> /\ str[1] \in set
    THEN TrimStartMatches(Tail(str), set)
    ELSE str

RECURSIVE TrimEndMatches(_, _)
\* str::trim_end_matches with a predicate.
TrimEndMatches(str, set) ==
    IF str # <<>> /\ str[Len(str)] \in set
    THEN TrimEndMatches(SubSeq(str, 1, Len(str) - 1), set)
    ELSE str

\* str::trim_matches: both ends.
TrimMatches(str, set) == TrimEndMatches(TrimStartMatches(str, set), set)

\* str::trim: surrounding whitespace is removed.
Trim(str) == TrimMatches(str, Whitespace)

\* Variant: only the whitespace is trimmed.
Cleaned_WhitespaceOnly(content) == Trim(content)

\* captcha_text and cleaned: the content trimmed, then stripped of
\* surrounding quotes and whitespace.
Cleaned(content) == TrimMatches(Trim(content), Quotes \cup Whitespace)

InitSolve ==
    /\ InitMain
    /\ total = 0
    /\ ~api_key_set
    /\ PdfIdle
    /\ RegIdle
    /\ SinkIdle
    /\ solver_api_key \in ApiKeys
    /\ solver_pc = "entry"
    /\ solver_requests = 0
    /\ solver_reply = NoneValue
    /\ solver_content = <<>>
    /\ solver_ret = [ok |-> FALSE, error |-> NoneValue, text |-> <<>>]
    /\ ManualIdle
    /\ ProgressIdle

\* solve: the check of the API key.
solve_check_key ==
    /\ solver_pc = "entry"
    /\ IF solver_api_key = <<>>
       THEN /\ solver_ret' = SolveErr(ErrApiKeyNotSet)
            /\ solver_pc' = "returned"
       ELSE /\ solver_pc' = "send"
            /\ UNCHANGED solver_ret
    /\ UNCHANGED <<solver_api_key, solver_requests, solver_reply,
                   solver_content>>

\* solve: the request is posted; a failed send, an error status and a body
\* that does not parse are network errors, an answer without choices is a
\* captcha failure, otherwise the content of the first choice is taken.
solve_send ==
    /\ solver_pc = "send"
    /\ solver_requests' = solver_requests + 1
    /\ \E reply \in {"send_err", "status_err", "parse_err", "no_choices",
                     "content"} :
          /\ solver_reply' = reply
          /\ IF reply = "content"
             THEN /\ solver_content' \in Answers
                  /\ solver_pc' = "clean"
                  /\ UNCHANGED solver_ret
             ELSE /\ solver_ret' = IF reply = "no_choices"
                                   THEN SolveErr(ErrCaptchaFailedOnce)
                                   ELSE SolveErr(ErrNetwork)
                  /\ solver_pc' = "returned"
                  /\ UNCHANGED solver_content
    /\ UNCHANGED solver_api_key

\* solve: the answer is cleaned up; an empty text is a captcha failure.
solve_clean ==
    /\ solver_pc = "clean"
    /\ solver_ret' = IF Cleaned(solver_content) = <<>>
                     THEN SolveErr(ErrCaptchaFailedOnce)
                     ELSE SolveOk(Cleaned(solver_content))
    /\ solver_pc' = "returned"
    /\ UNCHANGED <<solver_api_key, solver_requests, solver_reply,
                   solver_content>>

NextSolve ==
    \/ solve_check_key
        /\ UNCHANGED <<main_vars, pdf_vars, reg_vars, sink_vars, manual_vars, pct_vars>>
    \/ solve_send
        /\ UNCHANGED <<main_vars, pdf_vars, reg_vars, sink_vars, manual_vars, pct_vars>>
    \/ solve_clean
        /\ UNCHANGED <<main_vars, pdf_vars, reg_vars, sink_vars, manual_vars, pct_vars>>

SpecSolve == InitSolve /\ [][NextSolve]_vars


\* ------------------------------------------ progress events (SpecProgress)
\* emit_progress on its own, for the arguments download_batch passes: the
\* position of an invoice of the batch with the batch's size, or the size
\* twice after the loop.
InitProgress ==
    /\ InitMain
    /\ total = 0
    /\ ~api_key_set
    /\ PdfIdle
    /\ RegIdle
    /\ SinkIdle
    /\ SolverIdle
    /\ ManualIdle
    /\ pct_total \in 0..MaxTotal
    /\ pct_current \in (1..pct_total) \cup {pct_total}
    /\ pct_events = <<>>

emit_progress ==
    /\ pct_events = <<>>
    /\ pct_events' = <<ProgressEvent(pct_current, pct_total)>>
    /\ UNCHANGED <<pct_current, pct_total>>

NextProgress ==
    emit_progress
        /\ UNCHANGED <<main_vars, pdf_vars, reg_vars, sink_vars, solver_vars,
                       manual_vars>>

SpecProgress == InitProgress /\ [][NextProgress]_vars


\* ------------------------------------------------------- derived notions
\* Indices of the events of a given type.
EventsOfType(t) == {k \in DOMAIN events : events[k].type = t}

\* Indices of the 'downloading' status events: the invoices actually started.
DownloadingEvents ==
    {k \in EventsOfType("status") : events[k].status = "downloading"}

\* Indices of the terminal status events of invoice i.
TerminalEvents(i) ==
    {k \in EventsOfType("status") :
        events[k].invoice = i /\ events[k].status \in {"success", "failed"}}

\* Indices of the outcomes of invoice i in a result list.
OutcomesOf(rs, i) == {k \in DOMAIN rs : rs[k].invoice_id = i}

\* Indices of the cancellation log line.
CancelLogEvents == {k \in DOMAIN events : events[k] = CancelLog}

\* download_batch has left its loop.
AfterLoop == bpc \in {"final", "remove", "returned"}

\* download_batch has returned.
BatchReturned == bpc \in {"remove", "returned"}

\* The batch loop takes a step.
BatchStep == bpc' # bpc

\* The calls of one attempt whose failure is propagated with `?`.
PropagatingCalls == {"navigate", "fill_code", "screenshot", "fill_captcha", "submit"}

\* -----------------------------------------------------------------------
\* C1: in every BatchResult returned by download_batch, successCount +
\* failedCount equals the number of invoices started ('downloading' status
\* events emitted) and the length of the outcomes list.
C1_CountsEqualStarted ==
    ret.kind = "Ok" =>
        /\ ret.success_count + ret.failed_count = Cardinality(DownloadingEvents)
        /\ ret.success_count + ret.failed_count = Len(ret.results)

\* C1 witness: a batch cancelled early returned with fewer outcomes than
\* requests, some succeeded and some failed.
C1_Witness ==
    /\ ret.kind = "Ok"
    /\ ret.success_count > 0
    /\ ret.failed_count > 0
    /\ ret.success_count + ret.failed_count < ret.total

\* C2: for every invoice at most one terminal status event is emitted and at
\* most one InvoiceOutcome is appended, whatever failures, retries and
\* cancellation happen.
C2_AtMostOneTerminal ==
    \A i \in 1..total :
        /\ Cardinality(TerminalEvents(i)) <= 1
        /\ Cardinality(OutcomesOf(results, i)) <= 1

\* C2 witness: a returned batch, cancelled, whose first invoice exhausted its
\* retries and whose second was aborted, each with one terminal event.
C2_Witness ==
    /\ bpc = "returned"
    /\ cancelled
    /\ Len(results) >= 2
    /\ results[1].error = ErrCaptchaFailed
    /\ results[2].error = ErrCancelled
    /\ Cardinality(TerminalEvents(1)) = 1
    /\ Cardinality(TerminalEvents(2)) = 1

\* C3: a failure of invoice k other than cancellation does not abort the
\* batch: the loop continues after recording it and, the flag not being set at
\* the next top-of-loop check, starts invoice k+1.
C3_FailureDoesNotAbort ==
    [][ /\ ( /\ bpc = "await"
             /\ tpc = "done"
             /\ ~task_result.ok
             /\ task_result.error # ErrCancelled
             /\ idx + 1 < total
             /\ BatchStep )
          => ( /\ bpc' \in {"sleep", "loop_top"}
               /\ idx' = idx + 1
               /\ ret' = ret )
        /\ ( /\ bpc = "sleep"
             /\ BatchStep )
          => ( bpc' = "loop_top" /\ idx' = idx )
        /\ ( /\ bpc = "loop_top"
             /\ idx > 0
             /\ idx < total
             /\ results[idx].status = "failed"
             /\ results[idx].error # ErrCancelled
             /\ ~cancelled
             /\ BatchStep )
          => ( /\ bpc' = "await"
               /\ tpc' = "launch"
               /\ events'[Len(events')] =
                    InvoiceStatusEvent(idx + 1, "downloading", NoneValue, None) )
      ]_vars

\* C3 witness: invoice k failed on a browser error, the flag is not set, and
\* invoice k+1 is running.
C3_Witness ==
    /\ bpc = "await"
    /\ idx >= 1
    /\ results[idx].status = "failed"
    /\ results[idx].error \in {ErrBrowser, ErrBrowserLaunch, ErrCaptchaFailed, ErrPanicked}
    /\ ~cancelled
    /\ tpc = "navigate"

C5_ConfigErrorFatal ==
    ~api_key_set =>
        /\ events = <<>>
        /\ ~browser
        /\ results = <<>>
        /\ tpc = "idle"
        /\ (bpc = "returned" => ret.kind = "Err")

\* C6: download_batch returns a BatchResult on every path, also when every
\* invoice fails, when the list is empty and when the batch is cancelled.
C6_AlwaysBatchResult ==
    BatchReturned =>
        /\ ret.kind = "Ok"
        /\ ret.total = total
        /\ Len(ret.results) <= total

\* C6 witness: the batch returned with every invoice failed.
C6_Witness ==
    /\ bpc = "returned"
    /\ total > 1
    /\ ret.kind = "Ok"
    /\ ret.failed_count = total


\* C7: if the flag is set before the first top-of-loop check, the batch
\* returns successCount = 0, failedCount = 0 and no outcomes, and no
\* 'downloading' or terminal status event is emitted for any invoice.
C7_CancelBeforeStart ==
    /\ [][ ( /\ bpc = "loop_top"
             /\ idx = 0
             /\ cancelled
             /\ BatchStep )
           => ( /\ bpc' = "final"
                /\ idx' = 0
                /\ tpc' = "idle" )
         ]_vars
    /\ []( (AfterLoop /\ idx = 0) =>
             /\ success_count = 0
             /\ failed_count = 0
             /\ results = <<>>
             /\ EventsOfType("status") = {}
             /\ EventsOfType("captcha") = {}
             /\ (ret.kind # "none" =>
                   /\ ret.kind = "Ok"
                   /\ ret.success_count = 0
                   /\ ret.failed_count = 0
                   /\ ret.results = <<>>) )

\* C7 witness: a non-empty batch, cancelled before its first check, returned.
C7_Witness ==
    /\ bpc = "returned"
    /\ total > 0
    /\ idx = 0
    /\ cancelled
    /\ events[1] = CancelLog
    /\ ret.kind = "Ok"

\* C8: a set flag at the top of a loop iteration stops the loop at once: no
\* progress event, status event or outcome is produced for that invoice or a
\* later one, and the invoices not started count neither as succeeded nor as
\* failed.
C8_TopCheckStops ==
    /\ [][ ( /\ bpc = "loop_top"
             /\ HasNext
             /\ cancelled
             /\ BatchStep )
           => ( /\ bpc' = "final"
                /\ events' = Append(events, CancelLog)
                /\ results' = results
                /\ success_count' = success_count
                /\ failed_count' = failed_count
                /\ idx' = idx
                /\ task_vars' = task_vars )
         ]_vars
    /\ []( AfterLoop =>
             /\ Len(results) = idx
             /\ success_count + failed_count = idx
             /\ \A k \in EventsOfType("status") \cup EventsOfType("captcha") :
                    events[k].invoice <= idx
             /\ Cardinality(EventsOfType("progress")) =
                    idx + (IF BatchReturned THEN 1 ELSE 0)
             /\ (ret.kind # "none" =>
                   ret.success_count + ret.failed_count = idx) )

\* C8 witness: the loop was stopped by the flag after some invoices and
\* before others, and the batch returned.
C8_Witness ==
    /\ bpc = "returned"
    /\ cancelled
    /\ 0 < idx
    /\ idx < total
    /\ Cardinality(CancelLogEvents) = 1
    /\ ret.success_count + ret.failed_count = idx

\* C9: the cancellation flag starts false, cancel() sets it, nothing resets
\* it, and a repeated cancel leaves the state as after the first call.
C9_FlagMonotonic ==
    /\ cancelled = FALSE
    /\ [][ /\ cancelled => cancelled'
           /\ (cancel_calls' # cancel_calls /\ orchestrators) => cancelled'
           /\ (cancel_calls' # cancel_calls /\ cancelled) =>
                 /\ cancelled'
                 /\ batch_vars' = batch_vars
                 /\ task_vars' = task_vars
         ]_vars

\* C9 witness: cancel was called twice while the start loop was running an
\* invoice, and the flag is set.
C9_Witness ==
    /\ cancel_calls = 2
    /\ cancel_ret = "Ok"
    /\ cancelled
    /\ bpc = "await"
    /\ tpc = "submit"

\* C10: whenever cancellation affects a batch run (an in-flight invoice is
\* aborted with the cancellation error, or later invoices are skipped), the
\* start loop emits the cancellation log line exactly once, before the final
\* progress event; cancel() itself emits no event.
C10_CancelLogged ==
    /\ ( /\ BatchReturned
         /\ \/ Len(results) < total
            \/ \E k \in DOMAIN results : results[k].error = ErrCancelled )
       => ( /\ Cardinality(CancelLogEvents) = 1
            /\ \A k \in CancelLogEvents : k < Len(events) - 1 )
    /\ (bpc = "new" => events = <<>>)


\* ------------------------------------------------------------------------
\* Event-order notions.
IsProgress(e) == e.type = "progress"

IsInvoiceEvent(e) == e.type \in {"status", "captcha"}

IsDownloading(e) == e.type = "status" /\ e.status = "downloading"

IsTerminal(e) == e.type = "status" /\ e.status \in {"success", "failed"}

IsSummary(e) == e.type = "log" /\ e.error = "Batch complete"

\* C11: per invoice the events are progress, status 'downloading', zero or
\* more captcha-required, terminal status; invoices come in request order and
\* no event of invoice k+1 precedes the terminal status of invoice k.
C11_EventOrder ==
    \A k \in DOMAIN events :
        LET e == events[k] IN
        /\ IsDownloading(e) =>
              /\ k > 1
              /\ events[k - 1] = ProgressEvent(e.invoice, total)
              /\ Cardinality({j \in 1..k : IsDownloading(events[j])}) = e.invoice
              /\ \A j \in 1..(k - 1) :
                    IsInvoiceEvent(events[j]) => events[j].invoice < e.invoice
              /\ e.invoice > 1 =>
                    \E j \in TerminalEvents(e.invoice - 1) : j < k - 1
        /\ (e.type = "captcha" \/ IsTerminal(e)) =>
              /\ \E j \in 1..(k - 1) :
                    IsDownloading(events[j]) /\ events[j].invoice = e.invoice
              /\ \A j \in 1..(k - 1) :
                    /\ IsInvoiceEvent(events[j]) => events[j].invoice <= e.invoice
                    /\ IsTerminal(events[j]) => events[j].invoice < e.invoice
        /\ IsProgress(e) =>
              /\ k < Len(events)
              /\ \/ /\ IsDownloading(events[k + 1])
                    /\ events[k + 1].invoice = e.current
                 \/ IsSummary(events[k + 1])

\* C11 witness: a batch of three invoices returned, the second one having
\* raised a captcha-required event before its terminal status.
C11_Witness ==
    /\ bpc = "returned"
    /\ Len(results) = 3
    /\ \E k \in EventsOfType("captcha") : events[k].invoice = 2
    /\ results[1].status = "success"

\* C12: with no cancellation, the progress events of a batch of n invoices
\* carry current = 1, 2, ..., n with total = n, followed by one final
\* progress event at (n, n).
C12_ProgressSequence ==
    (BatchReturned /\ ~cancelled) =>
        SelectSeq(events, IsProgress) =
            [k \in 1..(total + 1) |->
                ProgressEvent(IF k <= total THEN k ELSE total, total)]

\* C12 witness: a batch of three invoices returned without cancellation.
C12_Witness ==
    /\ bpc = "returned"
    /\ ~cancelled
    /\ total = 3
    /\ Len(SelectSeq(events, IsProgress)) = 4

\* C13: after the loop, completed or cut short, exactly one final progress
\* event at (total, total) and then exactly one summary log are emitted as
\* the last two events, and the BatchResult has total = number of requests
\* and the counts of the summary.
C13_FinalEvents ==
    /\ BatchReturned =>
          /\ Len(events) >= 2
          /\ events[Len(events) - 1] = ProgressEvent(total, total)
          /\ events[Len(events)] =
                SummaryLog(ret.success_count, ret.failed_count, total)
          /\ Cardinality({k \in DOMAIN events : IsSummary(events[k])}) = 1
          /\ Cardinality(EventsOfType("progress")) =
                Cardinality(DownloadingEvents) + 1
          /\ ret.total = total
          /\ ret.success_count = success_count
          /\ ret.failed_count = failed_count
    /\ ~BatchReturned =>
          /\ {k \in DOMAIN events : IsSummary(events[k])} = {}
          /\ Cardinality(EventsOfType("progress")) =
                Cardinality(DownloadingEvents)

\* C13 witness: a batch cut short by cancellation returned after one of its
\* three invoices.
C13_Witness ==
    /\ bpc = "returned"
    /\ cancelled
    /\ total = 3
    /\ Len(results) = 1
    /\ events[Len(events) - 1] = ProgressEvent(3, 3)


\* ------------------------------------------------------------------------
\* Indices of the captcha-required events of invoice i.
CaptchaEvents(i) == {k \in EventsOfType("captcha") : events[k].invoice = i}

\* The running task has returned and every attempt it started ended with the
\* outcome o.
EveryAttemptEnded(o) ==
    /\ tpc = "done"
    /\ attempt >= 1
    /\ Len(attempt_log) = attempt
    /\ \A k \in DOMAIN attempt_log : attempt_log[k] = o

\* C14: an invoice whose solver fails in every attempt makes exactly
\* MAX_RETRIES attempts, ends with the captcha-exhausted error and raises
\* exactly one captcha-required event, on the final attempt only; nothing is
\* submitted and no download is attempted for it.
C14_SolverAlwaysFails ==
    /\ []( EveryAttemptEnded("solve_err") =>
             /\ attempt = MAX_RETRIES
             /\ task_result = Err(ErrCaptchaFailed)
             /\ Cardinality(CaptchaEvents(idx + 1)) = 1
             /\ ~browser )
    /\ []( /\ tpc = "fill_captcha" => last = <<"solve", "solve_ok">>
           /\ tpc = "submit" => last = <<"fill_captcha", "ok">>
           /\ tpc = "check_error" => last = <<"submit", "ok">>
           /\ tpc = "download" => last[1] = "check_error" )
    /\ [][ /\ ( /\ tpc = "solve"
                /\ tpc' # tpc
                /\ last' = <<"solve", "solve_err">> )
             => ( /\ tpc' \in {"attempt_top", "done"}
                  /\ IF attempt = MAX_RETRIES
                     THEN /\ events' = Append(events, CaptchaRequiredEvent(idx + 1))
                          /\ tpc' = "done"
                     ELSE /\ events' = events
                          /\ tpc' = "attempt_top" )
           /\ (EventsOfType("captcha")' # EventsOfType("captcha"))
             => (tpc = "solve" /\ attempt = MAX_RETRIES)
         ]_vars

\* C14 witness: with a configured credential, the solver failed in all three
\* attempts and the task returned.
C14_Witness ==
    /\ api_key_set
    /\ EveryAttemptEnded("solve_err")
    /\ attempt_log = <<"solve_err", "solve_err", "solve_err">>
    /\ idx = 1

\* The running task returned from a successful download in its second attempt,
\* after a first attempt that ended with a captcha banner and a second one that
\* showed no banner.
BannerThenClean ==
    /\ tpc = "done"
    /\ attempt_log = <<"banner_captcha">>
    /\ page_error = "banner_none"
    /\ last = <<"download", "download_ok">>

\* C15: a captcha banner after the first submission followed by a second
\* attempt without banner and with a non-empty download ends the invoice as
\* success after exactly two attempts; its path is the configured directory,
\* a separator, the sanitised code and ".pdf" (/tmp/out/A_B_C.pdf for the code
\* A/B:C), and the batch records it as success with that path.
C15_BannerThenSuccess ==
    /\ []( BannerThenClean =>
             /\ attempt = 2
             /\ task_result = Ok(DownloadDirectory \o <<"/">>
                                  \o Sanitize(RequestCode(idx + 1)) \o PdfExtension)
             /\ idx = 0 => task_result.file_path =
                     Some(<<"/", "t", "m", "p", "/", "o", "u", "t", "/",
                            "A", "_", "B", "_", "C", ".", "p", "d", "f">>) )
    /\ [][ BannerThenClean /\ results' # results =>
             /\ success_count' = success_count + 1
             /\ failed_count' = failed_count
             /\ results'[Len(results')].status = "success"
             /\ results'[Len(results')].file_path = task_result.file_path
             /\ events'[Len(events')] =
                    InvoiceStatusEvent(idx + 1, "success", NoneValue,
                                       task_result.file_path) ]_vars

C15_Witness ==
    /\ BannerThenClean
    /\ idx = 0
    /\ task_result.ok
    /\ attempt = 2

\* The two shapes of a finished invoice, in an event or an outcome.
SuccessShape(x) ==
    x.status = "success" /\ x.file_path # None /\ x.error = NoneValue

FailedShape(x) ==
    x.status = "failed" /\ x.error # NoneValue /\ x.file_path = None

\* C18: every terminal status event and every outcome is either 'success'
\* with a file path and no error, or 'failed' with an error string and no file
\* path; an outcome has the shape of its invoice's terminal event; and when
\* the batch has returned every started invoice has one of each.
C18_TwoShapes ==
    /\ \A k \in DOMAIN events :
          IsTerminal(events[k]) => SuccessShape(events[k]) \/ FailedShape(events[k])
    /\ \A k \in DOMAIN results :
          /\ SuccessShape(results[k]) \/ FailedShape(results[k])
          /\ \E e \in TerminalEvents(results[k].invoice_id) :
                /\ events[e].status = results[k].status
                /\ events[e].error = results[k].error
                /\ events[e].file_path = results[k].file_path
    /\ BatchReturned =>
          \A d \in DownloadingEvents :
             /\ Cardinality(TerminalEvents(events[d].invoice)) = 1
             /\ Cardinality(OutcomesOf(results, events[d].invoice)) = 1

C18_Witness ==
    /\ BatchReturned
    /\ \E k \in DOMAIN results : SuccessShape(results[k])
    /\ \E k \in DOMAIN results : FailedShape(results[k])

\* The part of a path before its last n characters, and those characters.
Front(p, n) == SubSeq(p, 1, Len(p) - n)

Back(p, n) == SubSeq(p, Len(p) - n + 1, Len(p))

\* stem is code with each of / \ : * ? " < > | replaced by _ and every other
\* character unchanged.
IsSanitized(stem, code) ==
    /\ Len(stem) = Len(code)
    /\ \A j \in 1..Len(code) :
          /\ code[j] \in {"/", "\\", ":", "*", "?", "\"", "<", ">", "|"}
                => stem[j] = "_"
          /\ code[j] \notin {"/", "\\", ":", "*", "?", "\"", "<", ">", "|"}
                => stem[j] = code[j]

\* p is the file name directly under dir.
IsJoined(p, dir, name) ==
    /\ Len(p) > Len(name)
    /\ Back(p, Len(name)) = name
    /\ Front(p, Len(name)) =
          IF dir[Len(dir)] = "/" THEN dir ELSE dir \o <<"/">>

\* C16: the path a successful download_pdf_sync returns and writes is the
\* download directory joined with the sanitised code followed by ".pdf"; for
\* the directory /tmp/out the codes A/B:C and D give /tmp/out/A_B_C.pdf and
\* /tmp/out/D.pdf.
C16_SavedPath ==
    \A k \in 1..pdf_pos :
       pdf_saved[k] # None =>
          LET p == pdf_saved[k][1]
              code == pdf_codes[k]
          IN /\ Len(p) >= Len(code) + 4
             /\ Back(p, 4) = <<".", "p", "d", "f">>
             /\ IsSanitized(Back(Front(p, 4), Len(code)), code)
             /\ IsJoined(p, pdf_dir, Back(p, Len(code) + 4))
             /\ \E f \in fs : f.path = p
             /\ pdf_dir = <<"/", "t", "m", "p", "/", "o", "u", "t">>
                   /\ code = <<"A", "/", "B", ":", "C">>
                   => p = <<"/", "t", "m", "p", "/", "o", "u", "t", "/",
                            "A", "_", "B", "_", "C", ".", "p", "d", "f">>
             /\ pdf_dir = <<"/", "t", "m", "p", "/", "o", "u", "t">>
                   /\ code = <<"D">>
                   => p = <<"/", "t", "m", "p", "/", "o", "u", "t", "/",
                            "D", ".", "p", "d", "f">>

C16_Witness ==
    /\ pdf_pos = 2
    /\ pdf_codes = <<(<<"A", "/", "B", ":", "C">>), (<<"D">>)>>
    /\ pdf_saved =
          <<Some(<<"/", "t", "m", "p", "/", "o", "u", "t", "/",
                   "A", "_", "B", "_", "C", ".", "p", "d", "f">>),
            Some(<<"/", "t", "m", "p", "/", "o", "u", "t", "/",
                   "D", ".", "p", "d", "f">>)>>

\* Numbers of successful calls and of files in the file system.
SavedCount == Cardinality({k \in DOMAIN pdf_saved : pdf_saved[k] # None})

FileCount == Cardinality({f.path : f \in fs})

DistinctCodes ==
    \A j, k \in DOMAIN pdf_codes : j # k => pdf_codes[j] # pdf_codes[k]

\* C17: when the codes of the requests are pairwise distinct, the number of
\* files written equals the number of successful downloads, and no two
\* successful downloads have the same path.
C17_OnePdfPerSuccess ==
    DistinctCodes /\ pdf_pos = Len(pdf_codes) =>
       /\ FileCount = SavedCount
       /\ \A j, k \in DOMAIN pdf_saved :
             j # k /\ pdf_saved[j] # None => pdf_saved[j] # pdf_saved[k]

\* The start_download calls for an identifier that have not removed it yet.
ActiveCalls(id) ==
    {k \in DOMAIN reg_calls :
        reg_calls[k].batch_id = id /\ reg_calls[k].pc # "returned"}

\* C19: cancel_download returns success and sets the flag of the batch found
\* when its identifier is in the registry, and returns the no-active-batch
\* error otherwise, in particular when the identifier was never started or
\* every batch started with it has finished; a batch whose start_download has
\* removed it is never in the registry again and no cancel changes it.
C19_CancelLookup ==
    /\ []( \A id \in BatchIds :
             reg_orchestrators[id] # None =>
                /\ reg_orchestrators[id][1] \in ActiveCalls(id) )
    /\ [][ reg_cancels' # reg_cancels =>
             LET id == reg_cancel_last'.batch_id
             IN /\ reg_orchestrators[id] # None =>
                      /\ reg_cancel_last'.ret = "Ok"
                      /\ reg_calls'[reg_orchestrators[id][1]].cancelled
                /\ reg_orchestrators[id] = None =>
                      /\ reg_cancel_last'.ret = ErrNoActive
                      /\ reg_calls' = reg_calls
                /\ ActiveCalls(id) = {} => reg_cancel_last'.ret = ErrNoActive
                /\ \A k \in DOMAIN reg_calls :
                      reg_calls[k].pc = "returned" => reg_calls'[k] = reg_calls[k]
          ]_vars

C19_Witness ==
    /\ reg_cancels = 2
    /\ reg_cancel_last = [batch_id |-> "X", ret |-> ErrNoActive]
    /\ Len(reg_calls) = 1
    /\ reg_calls[1] = [batch_id |-> "X", pc |-> "returned", cancelled |-> TRUE]

\* C20: while a batch is between its insertion and its removal, the registry
\* entry of its identifier is that batch: a second start with the same
\* identifier does not replace it.
C20_EntryNotReplaced ==
    \A k \in DOMAIN reg_calls :
       reg_calls[k].pc \in {"running", "finished"} =>
          reg_orchestrators[reg_calls[k].batch_id] = Some(k)

\* The positions of the task inside an attempt.
AttemptPositions ==
    {"attempt_top", "navigate", "fill_code", "screenshot", "solve",
     "fill_captcha", "submit", "check_error", "download"}

\* download_batch records the result of the task that returned.
RecordStep == bpc = "await" /\ tpc = "done" /\ results' # results

\* The invoice is recorded as failed with error e and counted as failed.
RecordedFailed(e) ==
    /\ failed_count' = failed_count + 1
    /\ success_count' = success_count
    /\ results' = Append(results,
          [invoice_id |-> idx + 1, code |-> RequestCode(idx + 1),
           status |-> "failed", error |-> e, file_path |-> None])
    /\ events'[Len(events')] = InvoiceStatusEvent(idx + 1, "failed", e, None)

\* C22: a browser session is opened only by the launch of a task, before
\* its first attempt and while no session is open; it stays open through
\* every attempt of that task and is closed when the task returns, whatever
\* the outcome, so no session is open outside a running task.
C22_OneSessionPerTask ==
    /\ []( tpc \in {"idle", "launch", "done"} => ~browser )
    /\ []( tpc \in AttemptPositions => browser /\ attempt >= 1 )
    /\ [][ /\ browser' # browser =>
               IF browser'
               THEN tpc = "launch" /\ tpc' = "attempt_top" /\ attempt' = 1
               ELSE tpc' = "done"
           /\ tpc = "launch" /\ tpc' = "attempt_top" => ~browser /\ browser'
           /\ tpc \in AttemptPositions /\ tpc' \in AttemptPositions
                 => browser /\ browser'
         ]_vars

C22_Witness ==
    /\ tpc = "done"
    /\ ~browser
    /\ attempt = MAX_RETRIES
    /\ idx = 1
    /\ task_result.ok

\* C24: when the flag is set at the top of attempt k, for every k, the task
\* returns the cancellation error at once, with no call into the browser or
\* the solver in that attempt, and the invoice is recorded as failed with
\* that error and counted in failed_count.
C24_CheckedEveryAttempt ==
    /\ []( tpc = "done" /\ last = <<"check", "cancelled">> =>
             /\ task_result = Err(ErrCancelled)
             /\ Len(attempt_log) = attempt - 1 )
    /\ [][ /\ tpc = "attempt_top" /\ cancelled /\ tpc' # tpc =>
               /\ attempt \in 1..MAX_RETRIES
               /\ tpc' = "done"
               /\ task_result' = Err(ErrCancelled)
               /\ last' = <<"check", "cancelled">>
               /\ attempt' = attempt
               /\ events' = events
           /\ RecordStep /\ last = <<"check", "cancelled">> =>
               RecordedFailed(ErrCancelled)
         ]_vars

C24_Witness ==
    /\ tpc = "idle"
    /\ attempt = MAX_RETRIES
    /\ last = <<"check", "cancelled">>
    /\ failed_count = 1
    /\ results[1].error = ErrCancelled

\* C26: a task whose MAX_RETRIES attempts all ended in a solver failure, a
\* captcha-rejection banner or a failed or empty download returns the
\* captcha-exhausted error naming 3 attempts, which becomes the invoice's
\* terminal failure; there is never a fourth attempt.
C26_ExhaustedAfterMaxRetries ==
    /\ []( /\ attempt <= MAX_RETRIES
           /\ Len(attempt_log) <= MAX_RETRIES
           /\ \A k \in DOMAIN attempt_log :
                 attempt_log[k] \in {"solve_err", "banner_captcha",
                                     "download_empty", "download_err"} )
    /\ []( tpc = "done" /\ Len(attempt_log) = MAX_RETRIES =>
             /\ attempt = MAX_RETRIES
             /\ task_result = Err(ErrCaptchaFailed)
             /\ task_result.error = "Captcha solving failed after 3 attempts" )
    /\ [][ RecordStep /\ Len(attempt_log) = MAX_RETRIES =>
               RecordedFailed(ErrCaptchaFailed) ]_vars

C26_Witness ==
    /\ tpc = "done"
    /\ attempt_log = <<"solve_err", "banner_captcha", "download_empty">>
    /\ task_result = Err(ErrCaptchaFailed)

\* C27: after a submission, a captcha-rejection banner ends the attempt
\* without a download; any other banner, or none, is followed by a download
\* in the same attempt; a download is attempted only after such a check.
C27_BannerHandling ==
    /\ []( tpc = "download" =>
             /\ page_error \in {"banner_none", "banner_other"}
             /\ last = <<"check_error", page_error>> )
    /\ [][ /\ tpc = "check_error" /\ last'[1] = "check_error" =>
               /\ last'[2] = "banner_captcha" =>
                     /\ tpc' \in {"attempt_top", "done"}
                     /\ attempt_log' = Append(attempt_log, "banner_captcha")
                     /\ tpc' = "done" => task_result' = Err(ErrCaptchaFailed)
               /\ last'[2] \in {"banner_none", "banner_other"} =>
                     /\ tpc' = "download"
                     /\ attempt' = attempt
                     /\ attempt_log' = attempt_log
           /\ last'[1] = "download" /\ last' # last => tpc = "download"
         ]_vars

C27_Witness ==
    /\ tpc = "done"
    /\ task_result.ok
    /\ page_error = "banner_other"
    /\ attempt_log = <<"banner_captcha">>

\* C28: an attempt whose solving fails fills no captcha and submits nothing;
\* the captcha-required event is emitted exactly when that attempt is attempt
\* MAX_RETRIES, and an earlier attempt is followed directly by the next one.
C28_SolverFailure ==
    /\ []( /\ tpc = "fill_captcha" => last = <<"solve", "solve_ok">>
           /\ tpc = "submit" => last = <<"fill_captcha", "ok">>
           /\ last = <<"solve", "solve_err">> =>
                 tpc \in {"attempt_top", "done", "idle"} )
    /\ [][ tpc = "solve" /\ last' = <<"solve", "solve_err">> =>
               /\ attempt = MAX_RETRIES <=>
                     events' = Append(events, CaptchaRequiredEvent(idx + 1))
               /\ attempt # MAX_RETRIES <=> events' = events
               /\ attempt < MAX_RETRIES =>
                     tpc' = "attempt_top" /\ attempt' = attempt + 1
               /\ attempt = MAX_RETRIES => tpc' = "done"
         ]_vars

C28_Witness ==
    /\ tpc = "done"
    /\ attempt_log = <<"solve_err", "download_err", "solve_err">>
    /\ Cardinality(CaptchaEvents(idx + 1)) = 1

\* C30: the batch sleeps only right after an invoice's terminal status was
\* emitted, only when another invoice remains and only when the flag is not
\* set at that moment: never before the first invoice, after the last one,
\* or after an invoice recorded while the flag is set.
C30_DelayOnlyBetween ==
    /\ []( bpc = "sleep" =>
             /\ idx >= 1
             /\ idx < total
             /\ IsTerminal(events[Len(events)])
             /\ events[Len(events)].invoice = idx )
    /\ [][ /\ bpc' = "sleep" /\ bpc # "sleep" =>
               bpc = "await" /\ ~cancelled /\ idx + 1 < total
           /\ bpc = "await" /\ bpc' # bpc /\ ~cancelled /\ idx + 1 < total =>
               bpc' = "sleep"
         ]_vars

C30_Witness ==
    /\ bpc = "sleep"
    /\ idx = 2
    /\ total = MaxInvoices

\* The calls into the browser session and the captcha solver of one attempt.
ExternalCalls ==
    {"navigate", "fill_code", "screenshot", "solve", "fill_captcha",
     "submit", "check_error", "download"}

\* The task makes one of the external calls of an attempt.
ExternalCallStep == tpc \in ExternalCalls /\ last'[1] = tpc /\ tpc' # tpc

\* C25: within an attempt the flag is checked between consecutive external
\* calls: a call that began with the flag set is never followed by another
\* call of that attempt.
C25_CheckedBetweenCalls ==
    [][ ExternalCallStep => ~flag_at_call ]_vars

\* C29: an empty download payload writes no file and creates no directory;
\* the attempt ends without success and the task goes on with the next
\* attempt when one remains, and otherwise ends with the exhausted error.
C29_EmptyPayloadRetried ==
    /\ []( last = <<"download", "download_empty">> => ~task_result.ok )
    /\ [][ tpc = "download" /\ last' = <<"download", "download_empty">> =>
               /\ fs' = fs
               /\ dir_created' = dir_created
               /\ attempt_log' = Append(attempt_log, "download_empty")
               /\ attempt < MAX_RETRIES =>
                     /\ tpc' = "attempt_top"
                     /\ attempt' = attempt + 1
                     /\ task_result' = task_result
               /\ attempt = MAX_RETRIES =>
                     /\ tpc' = "done"
                     /\ task_result' = Err(ErrCaptchaFailed)
         ]_vars

C29_Witness ==
    /\ tpc = "done"
    /\ attempt_log = <<"download_empty", "download_empty", "download_empty">>
    /\ fs = {}
    /\ ~dir_created

\* The holder of the registry lock gives it up in its next step.
LockReleased ==
    /\ reg_lock' = None
    /\ \/ reg_start_insert
       \/ reg_start_remove
       \/ reg_cancel_download

\* C21: the registry lock is held by start_download only around its insertion
\* and its removal, never while its download_batch runs or has just returned,
\* and by cancel_download only around its lookup; whoever holds it can give
\* it up at once, whatever the batches are doing.
C21_LockHeldBriefly ==
    /\ []( reg_lock # None /\ reg_lock[1].by = "start" =>
             reg_calls[reg_lock[1].call].pc \in {"insert", "remove"} )
    /\ []( \A k \in DOMAIN reg_calls :
             reg_calls[k].pc \in {"running", "finished"} =>
                reg_lock # Some(Guard("start", k, reg_calls[k].batch_id)) )
    /\ []( reg_lock # None => ENABLED LockReleased )
    /\ [][ reg_lock # None /\ reg_lock' # reg_lock => reg_lock' = None ]_vars

C21_Witness ==
    /\ reg_lock # None
    /\ reg_lock[1].by = "cancel"
    /\ \E k \in DOMAIN reg_calls : reg_calls[k].pc = "running"
    /\ reg_cancels = 1

\* C23: whether the sink accepts or rejects the events of a step has no
\* effect on the orchestration: every step of the batch with a failing sink
\* is, on the state of the batch, the step it takes when every event is
\* accepted, so results, counters, attempts and the returned value are those
\* of the run in which nothing is dropped.
C23_DropsDoNotInterfere == [][NextMain]_main_vars

C23_Witness ==
    /\ emit_result = "emit_err"
    /\ bpc = "await"
    /\ tpc = "done"
    /\ task_result.ok
    /\ idx = 1
    /\ success_count = 1

\* The answer consists of quotes and whitespace only.
OnlyQuotesAndBlanks(content) ==
    \A k \in 1..Len(content) : content[k] \in Quotes \cup Whitespace

\* C31: with an empty API key the solver returns the configuration error and
\* posts no request; an answer that is empty once surrounding quotes and
\* whitespace are trimmed makes it return an error, and a text it returns is
\* never empty.
C31_SolverFailsCleanly ==
    /\ solver_api_key = <<>> => solver_requests = 0
    /\ solver_pc = "returned" =>
          /\ solver_api_key = <<>> => solver_ret = SolveErr(ErrApiKeyNotSet)
          /\ solver_reply = "content" /\ OnlyQuotesAndBlanks(solver_content)
                => ~solver_ret.ok
          /\ solver_ret.ok => solver_ret.text # <<>>

C31_Witness ==
    /\ solver_pc = "returned"
    /\ solver_requests = 1
    /\ solver_reply = "content"
    /\ solver_content = <<"\"", " ", "'">>
    /\ solver_ret = SolveErr(ErrCaptchaFailedOnce)

\* C32: start_download eventually returns; on the way at most total invoices
\* are started, no attempt ordinal exceeds MAX_RETRIES, and the ordinal of a
\* task starts at 1 and grows by one from attempt to attempt.
C32_BatchTerminates ==
    /\ <>(bpc = "returned")
    /\ [](/\ Cardinality(DownloadingEvents) <= total
          /\ idx <= total
          /\ attempt <= MAX_RETRIES)
    /\ [][attempt' # attempt =>
            \/ attempt' = attempt + 1
            \/ attempt' = 0 /\ tpc' = "launch"]_vars

C32_Witness ==
    /\ bpc = "returned"
    /\ total = 2
    /\ Len(results) = 2
    /\ results[1].error = ErrCaptchaFailed
    /\ results[2].status = "success"

\* A list of outcomes answers the first requests, in request order.
PrefixOfRequests(rs) ==
    /\ Len(rs) <= total
    /\ \A i \in 1..Len(rs) :
          /\ rs[i].invoice_id = i
          /\ rs[i].code = RequestCode(i)

\* C33: the outcomes collected so far, and the outcomes of the BatchResult
\* returned, are those of the first requests in request order: outcome i
\* carries the id and the code of request i, and the requests left without
\* an outcome are the last ones.
C33_OutcomesArePrefix ==
    /\ PrefixOfRequests(results)
    /\ ret.kind = "Ok" => PrefixOfRequests(ret.results)

C33_Witness ==
    /\ bpc = "returned"
    /\ cancelled
    /\ total = 3
    /\ Len(ret.results) = 2
    /\ ret.results[1].status = "failed"
    /\ ret.results[2].status = "success"

\* The calls whose download_batch is running for an identifier.
RunningCalls(id) ==
    {k \in DOMAIN reg_calls :
        reg_calls[k].batch_id = id /\ reg_calls[k].pc = "running"}

\* C34: an identifier with a running batch is in the registry, and a
\* cancel_download for it returns success and leaves the flag of every
\* batch running under it set, however the calls interleave.
C34_RunningBatchCancellable ==
    /\ [](\A id \in BatchIds :
             RunningCalls(id) # {} => reg_orchestrators[id] # None)
    /\ [][ reg_cancels' # reg_cancels =>
             \A k \in RunningCalls(reg_cancel_last'.batch_id) :
                /\ reg_cancel_last'.ret = "Ok"
                /\ reg_calls'[k].cancelled ]_vars

\* C35: past its top-of-attempt check an attempt is not ended by the flag:
\* the task returns the cancellation error from the top of an attempt only,
\* a non-empty download returns the saved path whatever the flag, and the
\* batch records it as a success with that path and counts it; with the flag
\* set the recording is followed by no delay, and the next top of the loop
\* leaves the loop.
C35_LateCancelStillSucceeds ==
    [][ /\ task_result' # task_result /\ task_result'.error = ErrCancelled
             => tpc = "attempt_top"
        /\ tpc = "download" /\ last' = <<"download", "download_ok">>
             => /\ tpc' = "done"
                /\ task_result' = Ok(FilePath(idx + 1))
        /\ RecordStep /\ task_result.ok
             => /\ success_count' = success_count + 1
                /\ failed_count' = failed_count
                /\ results' = Append(results,
                      [invoice_id |-> idx + 1, code |-> RequestCode(idx + 1),
                       status |-> "success", error |-> NoneValue,
                       file_path |-> Some(FilePath(idx + 1))])
        /\ RecordStep /\ cancelled => bpc' = "loop_top"
        /\ bpc = "loop_top" /\ cancelled /\ bpc' # bpc => bpc' = "final"
      ]_vars

C35_Witness ==
    /\ bpc = "await"
    /\ tpc = "done"
    /\ total = 2
    /\ idx = 0
    /\ cancelled
    /\ flag_at_call
    /\ last = <<"download", "download_ok">>
    /\ task_result = Ok(FilePath(1))

\* The status events of invoice i that come after event k.
StatusEventsAfter(i, k) ==
    {j \in EventsOfType("status") : j > k /\ events[j].invoice = i}

C37_PercentageIsFloor ==
    \A k \in DOMAIN pct_events :
       LET e == pct_events[k]
       IN /\ e.percentage \in 0..100
          /\ e.percentage =
                IF e.total > 0 THEN (100 * e.current) \div e.total ELSE 0

====
